---- MODULE Spec2Model ----
(***************************************************************************)
(* DOAS digital twin (src/DOAS.py): the Streamlit script's simulation loop *)
(* (ERV wheel, cooling coil, reheat coil), its rolling trend history kept  *)
(* in the session state, and the psychrometric function.                   *)
(*                                                                         *)
(* Numbers.  The script computes in IEEE doubles.  Here a temperature is   *)
(* an integer count of 1/U degC and a valve command an integer count of    *)
(* 1/U percent, with U = 9000, so that every product and quotient of the   *)
(* control laws (x 0.70, x 10, / 10, x 15, / 15) is exact on the inputs    *)
(* the model draws: the arithmetic below is the real-number arithmetic of  *)
(* the script; the rounding of doubles (relative 2^-53) is not modelled.   *)
(* A run of the script is followed to its end before the next one starts.  *)
(***************************************************************************)
EXTENDS Integers, Sequences, FiniteSets

VARIABLES
    system_on,      \* sidebar toggle "System Master Start"
    oa_t_set,       \* slider "Outdoor Temp", 1/U degC
    oa_rh_set,      \* slider "Outdoor Humidity", percent
    sa_t_sp,        \* slider "Supply Temp Setpoint", 1/U degC
    airflow_cfm,    \* number input "Airflow (CFM)"
    session_state,  \* st.session_state: a record that has the field history or not
    now,            \* datetime.now(), counted in ticks of the loop (0.25 s sleep)
    runs,           \* script runs started in this session
    pc,             \* where the script (or the stage pipeline) is
    i,              \* ticks of the for-loop completed in this run
    oa_t, oa_rh, ra_t, erv_eff,
    leaving_erv_t, clg_valve, leaving_clg_t, reheat_valve, sa_t,
    T, RH, props    \* calculate_properties: arguments and outcome

vars == << system_on, oa_t_set, oa_rh_set, sa_t_sp, airflow_cfm, session_state,
           now, runs, pc, i, oa_t, oa_rh, ra_t, erv_eff,
           leaving_erv_t, clg_valve, leaving_clg_t, reheat_valve, sa_t,
           T, RH, props >>

widgets == << system_on, oa_t_set, oa_rh_set, sa_t_sp, airflow_cfm >>
locals  == << oa_t, oa_rh, ra_t, erv_eff,
              leaving_erv_t, clg_valve, leaving_clg_t, reheat_valve, sa_t >>
psy     == << T, RH, props >>

----------------------------------------------------------------------------
(* Units *)

\* units per degC and per percent of valve command
U == 9 * 1000
\* erv_eff is held in hundredths: 0.70 is 70
EffScale == 10 * 10

Max(a, b) == IF a >= b THEN a ELSE b
Min(a, b) == IF a <= b THEN a ELSE b

----------------------------------------------------------------------------
(* Program constants *)

OA_T_MIN == -5
OA_T_MAX == 45
OA_T_DEFAULT == 32
OA_RH_DEFAULT == 65
SA_SP_MIN == 14
SA_SP_MAX == 22
SA_SP_DEFAULT == 16
AIRFLOW_DEFAULT == 2500
LoopTicks == 120
HistoryWindow == 30
RA_T == 24 * U
ERV_EFF == 70
dewpoint_target == 12 * U
PCT_MAX == 100 * U

----------------------------------------------------------------------------
(* The three stages of one tick, lines 87-99 *)

\* mutant: the two air streams swapped
LeavingErvTSwapped(oa, ra, eff) == ra - (eff * (ra - oa)) \div EffScale

\* leaving_erv_t = oa_t - erv_eff * (oa_t - ra_t)
LeavingErvT(oa, ra, eff) == oa - (eff * (oa - ra)) \div EffScale

\* mutant: the lower clamp left out
ClgValveNoFloor(lerv) == Min(PCT_MAX, (lerv - dewpoint_target) * 10)

\* clg_valve = max(0, min(100, (leaving_erv_t - dewpoint_target) * 10))
ClgValve(lerv) == Max(0, Min(PCT_MAX, (lerv - dewpoint_target) * 10))

\* mutant: the floor at the dewpoint target left out
LeavingClgTNoFloor(lerv, valve) == lerv - valve \div 10

\* leaving_clg_t = max(dewpoint_target, leaving_erv_t - clg_valve / 10)
LeavingClgT(lerv, valve) == Max(dewpoint_target, lerv - valve \div 10)

\* mutant: the upper clamp left out
ReheatValveNoCap(sp, lclg) == Max(0, (sp - lclg) * 15)

\* reheat_valve = max(0, min(100, (sa_t_sp - leaving_clg_t) * 15))
ReheatValve(sp, lclg) == Max(0, Min(PCT_MAX, (sp - lclg) * 15))

\* mutant: the cooling gain used for the reheat coil
SaTCoolingGain(lclg, valve) == lclg + valve \div 10

\* sa_t = leaving_clg_t + reheat_valve / 15
SaT(lclg, valve) == lclg + valve \div 15

\* m4.metric("ERV Effectiveness", erv_eff*100), in 1/U percent
ErvCommand(eff) == (eff * 100 * U) \div EffScale

----------------------------------------------------------------------------
(* Bounds of the model *)

\* reruns of the script after the first run of a session
MaxReruns == 2
\* ticks at the start of each run whose sensor noise is drawn from Noises;
\* the later ticks of the run read the slider value (noise 0)
NoisyTicks == 2
\* the stage pipeline is evaluated for outdoor air from -OaLow to OaHigh degC
OaLow == 50
OaHigh == 60

\* np.random.normal(0, 0.15): 0 and +-4/9 degC (about three sigma)
Noises == { -4 * (U \div 9), 0, 4 * (U \div 9) }
NoiseAt(k) == IF k < NoisyTicks THEN Noises ELSE {0}

\* slider positions the user picks on a rerun; 18 degC with noise +4/9 and
\* setpoint 19 puts the reheat demand at exactly 100 percent
OaTSets == { OA_T_MIN * U, 18 * U, OA_T_DEFAULT * U, OA_T_MAX * U }
SaTSps  == { SA_SP_MIN * U, SA_SP_DEFAULT * U, 19 * U, SA_SP_MAX * U }

----------------------------------------------------------------------------
(* Session state and trend history, lines 60-63 and 169-176 *)

NoSession == [k \in {} |-> <<>>]

HasHistory == "history" \in DOMAIN session_state

\* the rows of st.session_state.history (none before the first run)
History == IF HasHistory THEN session_state.history ELSE <<>>

\* DataFrame.tail(n)
TailRows(rows, n) ==
    IF Len(rows) <= n THEN rows ELSE SubSeq(rows, Len(rows) - n + 1, Len(rows))

\* mutant: head(30) for tail(30), the newest row dropped once the window is full
ConcatHead(rows, new_row) == SubSeq(Append(rows, new_row), 1, Min(Len(rows) + 1, HistoryWindow))

\* pd.concat([history, new_row]).tail(30)
ConcatTail(rows, new_row) == TailRows(Append(rows, new_row), HistoryWindow)

NewRow(time, oa, sa, clg) ==
    [Time |-> time, OA_Temp |-> oa, SA_Temp |-> sa, Cooling_Command |-> clg]

----------------------------------------------------------------------------
(* The script, one run after another in a session *)

Init ==
    /\ system_on = TRUE
    /\ oa_t_set = OA_T_DEFAULT * U
    /\ oa_rh_set = OA_RH_DEFAULT
    /\ sa_t_sp = SA_SP_DEFAULT * U
    /\ airflow_cfm = AIRFLOW_DEFAULT
    /\ session_state = NoSession
    /\ now = 0
    /\ runs = 0
    /\ pc = "idle"
    /\ i = 0
    /\ oa_t = 0 /\ oa_rh = 0 /\ ra_t = 0 /\ erv_eff = 0
    /\ leaving_erv_t = 0 /\ clg_valve = 0 /\ leaving_clg_t = 0
    /\ reheat_valve = 0 /\ sa_t = 0
    /\ T = 0 /\ RH = 0 /\ props = [kind |-> "none"]

\* lines 46-79: the script starts, reads the widgets (their defaults on the
\* first run of the session) and creates the history if the session has none
Run ==
    /\ pc = "idle"
    /\ runs <= MaxReruns
    /\ IF runs = 0
         THEN UNCHANGED widgets
         ELSE /\ system_on' \in BOOLEAN
              /\ oa_t_set' \in OaTSets
              /\ sa_t_sp' \in SaTSps
              /\ UNCHANGED << oa_rh_set, airflow_cfm >>
    /\ session_state' = IF HasHistory THEN session_state ELSE [history |-> <<>>]
    /\ runs' = runs + 1
    /\ pc' = "loop"
    /\ i' = 0
    /\ oa_t' = 0 /\ oa_rh' = 0 /\ ra_t' = 0 /\ erv_eff' = 0
    /\ leaving_erv_t' = 0 /\ clg_valve' = 0 /\ leaving_clg_t' = 0
    /\ reheat_valve' = 0 /\ sa_t' = 0
    /\ UNCHANGED << now, psy >>

\* mutant: the supply temperature lags, averaged with the tick before
TickLagged ==
    /\ pc = "loop"
    /\ system_on
    /\ i < LoopTicks
    /\ \E noise \in NoiseAt(i) :
         /\ oa_t' = oa_t_set + noise
         /\ oa_rh' = oa_rh_set
    /\ ra_t' = RA_T
    /\ erv_eff' = ERV_EFF
    /\ leaving_erv_t' = LeavingErvT(oa_t', ra_t', erv_eff')
    /\ clg_valve' = ClgValve(leaving_erv_t')
    /\ leaving_clg_t' = LeavingClgT(leaving_erv_t', clg_valve')
    /\ reheat_valve' = ReheatValve(sa_t_sp, leaving_clg_t')
    /\ sa_t' = (SaT(leaving_clg_t', reheat_valve') + sa_t) \div 2
    /\ now' = now + 1
    /\ session_state' =
         [session_state EXCEPT
            !.history = ConcatTail(@, NewRow(now', oa_t', sa_t', clg_valve'))]
    /\ i' = i + 1
    /\ UNCHANGED << widgets, runs, pc, psy >>

\* lines 81-178: one iteration of the simulation loop
Tick ==
    /\ pc = "loop"
    /\ system_on
    /\ i < LoopTicks
    /\ \E noise \in NoiseAt(i) :
         /\ oa_t' = oa_t_set + noise
         /\ oa_rh' = oa_rh_set
    /\ ra_t' = RA_T
    /\ erv_eff' = ERV_EFF
    /\ leaving_erv_t' = LeavingErvT(oa_t', ra_t', erv_eff')
    /\ clg_valve' = ClgValve(leaving_erv_t')
    /\ leaving_clg_t' = LeavingClgT(leaving_erv_t', clg_valve')
    /\ reheat_valve' = ReheatValve(sa_t_sp, leaving_clg_t')
    /\ sa_t' = SaT(leaving_clg_t', reheat_valve')
    /\ now' = now + 1
    /\ session_state' =
         [session_state EXCEPT
            !.history = ConcatTail(@, NewRow(now', oa_t', sa_t', clg_valve'))]
    /\ i' = i + 1
    /\ UNCHANGED << widgets, runs, pc, psy >>

\* lines 180-192: master start is off; the warning, then the trend chart
Standby ==
    /\ pc = "loop"
    /\ ~system_on
    /\ pc' = "idle"
    /\ UNCHANGED << widgets, session_state, now, runs, i, locals, psy >>

\* lines 81, 186-192: the loop has run its 120 ticks; the trend chart
LoopExit ==
    /\ pc = "loop"
    /\ system_on
    /\ i = LoopTicks
    /\ pc' = "idle"
    /\ UNCHANGED << widgets, session_state, now, runs, i, locals, psy >>

Next == Run \/ Tick \/ Standby \/ LoopExit

Spec == Init /\ [][Next]_vars

\* a tick of the loop has been computed in the current run
Ticked == pc \in {"idle", "loop"} /\ i > 0

----------------------------------------------------------------------------
(* The stage pipeline as a function of its inputs: one evaluation of lines *)
(* 90-99 for outdoor air, return air, wheel effectiveness and setpoint     *)
(* drawn from the whole envelope                                           *)

OaTs == { k * (U \div 9) : k \in (-(OaLow * 9)) .. (OaHigh * 9) }
RaTs == { -(OaLow * U), RA_T, OaHigh * U }
ErvEffs == { 0, ERV_EFF, EffScale }
AllSaTSps == { k * U : k \in SA_SP_MIN .. SA_SP_MAX }

InitStages ==
    /\ system_on = TRUE
    /\ oa_t_set = OA_T_DEFAULT * U
    /\ oa_rh_set = OA_RH_DEFAULT
    /\ sa_t_sp \in AllSaTSps
    /\ airflow_cfm = AIRFLOW_DEFAULT
    /\ session_state = NoSession
    /\ now = 0
    /\ runs = 0
    /\ pc = "erv"
    /\ i = 0
    /\ oa_t \in OaTs
    /\ oa_rh = OA_RH_DEFAULT
    /\ ra_t \in RaTs
    /\ erv_eff \in ErvEffs
    /\ leaving_erv_t = 0 /\ clg_valve = 0 /\ leaving_clg_t = 0
    /\ reheat_valve = 0 /\ sa_t = 0
    /\ T = 0 /\ RH = 0 /\ props = [kind |-> "none"]

\* line 90
ErvStage ==
    /\ pc = "erv"
    /\ leaving_erv_t' = LeavingErvT(oa_t, ra_t, erv_eff)
    /\ pc' = "clg"
    /\ UNCHANGED << widgets, session_state, now, runs, i, oa_t, oa_rh, ra_t,
                    erv_eff, clg_valve, leaving_clg_t, reheat_valve, sa_t, psy >>

\* lines 93-95
ClgStage ==
    /\ pc = "clg"
    /\ clg_valve' = ClgValve(leaving_erv_t)
    /\ leaving_clg_t' = LeavingClgT(leaving_erv_t, clg_valve')
    /\ pc' = "reheat"
    /\ UNCHANGED << widgets, session_state, now, runs, i, oa_t, oa_rh, ra_t,
                    erv_eff, leaving_erv_t, reheat_valve, sa_t, psy >>

\* lines 98-99
ReheatStage ==
    /\ pc = "reheat"
    /\ reheat_valve' = ReheatValve(sa_t_sp, leaving_clg_t)
    /\ sa_t' = SaT(leaving_clg_t, reheat_valve')
    /\ pc' = "out"
    /\ UNCHANGED << widgets, session_state, now, runs, i, oa_t, oa_rh, ra_t,
                    erv_eff, leaving_erv_t, clg_valve, leaving_clg_t, psy >>

NextStages == ErvStage \/ ClgStage \/ ReheatStage

SpecStages == InitStages /\ [][NextStages]_vars

\* how far the current evaluation has come
ErvDone == Ticked \/ pc \in {"clg", "reheat", "out"}
ClgDone == Ticked \/ pc \in {"reheat", "out"}
ReheatDone == Ticked \/ pc = "out"

----------------------------------------------------------------------------
(* Psychrometric function, lines 36-41.  T is in tenths of a degC and RH   *)
(* in percent.  np.exp is evaluated in fixed point (e^x to three decimals),*)
(* so Es, Pw, W and h carry about three significant digits: Es and Pw in   *)
(* 1/100 hPa, W in 1/10000 kg/kg, h in 1/100 kJ/kg.                        *)

RECURSIVE TaylorSum(_, _, _, _)
\* sum of f^n / n! for n = k..10, in 1/10000, f in [0, 1)
TaylorSum(f4, k, term, acc) ==
    IF k > 10 THEN acc
    ELSE LET t == (term * f4) \div (k * 10000)
         IN  TaylorSum(f4, k + 1, t, acc + t)

RECURSIVE TimesEPower(_, _)
\* r * e^k
TimesEPower(r, k) ==
    IF k = 0 THEN r
    ELSE IF k > 0 THEN TimesEPower((r * 2718) \div 1000, k - 1)
    ELSE TimesEPower((r * 1000) \div 2718, k + 1)

\* np.exp(x): x in 1/10000, the result in 1/1000
Exp(x4) == TimesEPower(TaylorSum(x4 % 10000, 1, 10000, 10000) \div 10, x4 \div 10000)

\* Es = 6.112 * np.exp((17.67 * T) / (T + 243.5)), for T # -243.5
SatPressure(t10) == (6112 * Exp((176700 * t10) \div (t10 + 2435))) \div 10000

\* Pw = (RH / 100) * Es
VaporPressure(t10, rh) == (rh * SatPressure(t10)) \div 100

\* 1013.25 hPa
P_ATM == 101325

\* W = 0.622 * Pw / (1013.25 - Pw), for Pw # 1013.25
HumidityRatio(pw) == (6220 * pw) \div (P_ATM - pw)

\* h = 1.006 * T + W * (2501 + 1.86 * T)
Enthalpy(t10, w4) ==
    (1006 * t10) \div 100 + (w4 * ((25010 + (186 * t10) \div 100) \div 10)) \div 100

Value(h, w, finite) == [kind |-> "value", h |-> h, W |-> w, finite |-> finite]
Raised(error) == [kind |-> error, h |-> 0, W |-> 0, finite |-> TRUE]
NotCalled == [kind |-> "none"]

\* the outcomes of calculate_properties(T, RH).  The function has no guard:
\*  - at T = -243.5 the quotient divides by zero: a Python float raises
\*    ZeroDivisionError, a numpy float yields -inf, Es = 0 and so W = 0;
\*  - Pw is a numpy float (np.exp), so at Pw = 1013.25 the quotient is inf
\*    and is returned, and for Pw > 1013.25 a negative W is returned
calculate_properties(t10, rh) ==
    IF t10 + 2435 = 0
      THEN { Raised("ZeroDivisionError"), Value(Enthalpy(t10, 0), 0, TRUE) }
      ELSE LET Pw == VaporPressure(t10, rh)
           IN  IF P_ATM - Pw = 0
                 THEN { Value(0, 0, FALSE) }
                 ELSE { Value(Enthalpy(t10, HumidityRatio(Pw)), HumidityRatio(Pw), TRUE) }

\* calculate_properties is evaluated from -PsyTLow to PsyTHigh degC in steps
\* of 5 degC, and at the pole of the exponent
PsyTLow == 50
PsyTHigh == 110
PsyTs == { k * 50 : k \in (-(PsyTLow \div 5)) .. (PsyTHigh \div 5) } \cup { -2435 }
PsyRHs == { 0, 10, 50, OA_RH_DEFAULT, 100, 150 }

InitPsy ==
    /\ system_on = TRUE
    /\ oa_t_set = OA_T_DEFAULT * U
    /\ oa_rh_set = OA_RH_DEFAULT
    /\ sa_t_sp = SA_SP_DEFAULT * U
    /\ airflow_cfm = AIRFLOW_DEFAULT
    /\ session_state = NoSession
    /\ now = 0
    /\ runs = 0
    /\ pc = "call"
    /\ i = 0
    /\ oa_t = 0 /\ oa_rh = 0 /\ ra_t = 0 /\ erv_eff = 0
    /\ leaving_erv_t = 0 /\ clg_valve = 0 /\ leaving_clg_t = 0
    /\ reheat_valve = 0 /\ sa_t = 0
    /\ T \in PsyTs
    /\ RH \in PsyRHs
    /\ props = NotCalled

CalculateProperties ==
    /\ pc = "call"
    /\ props' \in calculate_properties(T, RH)
    /\ pc' = "returned"
    /\ UNCHANGED << widgets, session_state, now, runs, i, locals, T, RH >>

NextPsy == CalculateProperties

SpecPsy == InitPsy /\ [][NextPsy]_vars

----------------------------------------------------------------------------
(* Cooling load of the cooling stage: loadKW = massFlowKgS * (enthalpyIn - *)
(* enthalpyOut), massFlowKgS = airflowCFM * 1.2 / 2118, the enthalpies     *)
(* from the psychrometric function at the stage's inlet and outlet         *)
(* temperature with the outdoor RH carried forward.  In 1/1000 kW.         *)

StateEnthalpy(t, rh) ==
    LET t10 == t \div (U \div 10)
    IN  Enthalpy(t10, HumidityRatio(VaporPressure(t10, rh)))

LoadKW(cfm, h_in, h_out) == (cfm * 12 * (h_in - h_out)) \div 2118

CoolingLoadKW ==
    LoadKW(airflow_cfm, StateEnthalpy(leaving_erv_t, oa_rh),
                        StateEnthalpy(leaving_clg_t, oa_rh))

----------------------------------------------------------------------------
(* Claims *)

\* C1 (SpecStages): every command of a tick is within [0, 100] percent: the
\* cooling valve and the reheat valve once computed, and the ERV command
\* erv_eff * 100, for outdoor and return air in [-50, 60] degC, effectiveness
\* in [0, 1] and every setpoint, negative temperature deltas included.
C1_CommandsClamped ==
    /\ ErvDone => (0 <= ErvCommand(erv_eff) /\ ErvCommand(erv_eff) <= PCT_MAX)
    /\ ClgDone => (0 <= clg_valve /\ clg_valve <= PCT_MAX)
    /\ ReheatDone => (0 <= reheat_valve /\ reheat_valve <= PCT_MAX)

\* a negative cooling delta clamped to 0 and a reheat demand above 100 clamped
C1_Witness ==
    /\ pc = "out"
    /\ (leaving_erv_t - dewpoint_target) * 10 < 0
    /\ clg_valve = 0
    /\ (sa_t_sp - leaving_clg_t) * 15 > PCT_MAX
    /\ reheat_valve = PCT_MAX

\* C2 (Spec): a tick that reads oa_t = 32 (no noise) with setpoint 16 (return
\* air 24, effectiveness 0.70, dewpoint target 12) yields leaving_erv_t =
\* 26.4, clg_valve = 100, leaving_clg_t = 16.4, reheat_valve = 0, sa_t = 16.4.
C2_EndToEnd ==
    (Ticked /\ oa_t = 32 * U /\ sa_t_sp = 16 * U)
        => /\ leaving_erv_t = 264 * (U \div 10)
           /\ clg_valve = PCT_MAX
           /\ leaving_clg_t = 164 * (U \div 10)
           /\ reheat_valve = 0
           /\ sa_t = 164 * (U \div 10)

C2_Witness ==
    /\ Ticked /\ oa_t = 32 * U /\ sa_t_sp = 16 * U
    /\ ra_t = 24 * U /\ erv_eff = 70
    /\ sa_t = 164 * (U \div 10)

\* C3 (SpecStages): whenever the reheat demand (sa_t_sp - leaving_clg_t) * 15
\* is within [0, 100], the supply air temperature the reheat stage produces
\* equals the setpoint.
C3_SetpointConvergence ==
    ( /\ ReheatDone
      /\ 0 <= (sa_t_sp - leaving_clg_t) * 15
      /\ (sa_t_sp - leaving_clg_t) * 15 <= PCT_MAX )
        => sa_t = sa_t_sp

\* effectiveness 0, the reheat valve part open, the setpoint met
C3_Witness ==
    /\ pc = "out"
    /\ erv_eff = 0
    /\ 0 < reheat_valve /\ reheat_valve < PCT_MAX
    /\ sa_t = sa_t_sp

C5_SingularityRejected ==
    props.kind = "value"
        => /\ T # -2435
           /\ VaporPressure(T, RH) < P_ATM
           /\ props.finite
           /\ props.W >= 0

\* C6 (SpecStages): the cooling stage's outlet temperature is never below the
\* dewpoint target, and it is leaving_erv_t - clg_valve / 10 whenever that is
\* not below the dewpoint target.
C6_NoOvershootBelowDewpoint ==
    ClgDone
        => /\ leaving_clg_t >= dewpoint_target
           /\ (leaving_erv_t - clg_valve \div 10 >= dewpoint_target
                 => leaving_clg_t = leaving_erv_t - clg_valve \div 10)

\* the valve part open drives the air exactly to the dewpoint target
C6_Witness ==
    /\ pc = "out"
    /\ 0 < clg_valve /\ clg_valve < PCT_MAX
    /\ leaving_clg_t = dewpoint_target
    /\ leaving_clg_t < leaving_erv_t

\* C7 (SpecStages): with leaving_clg_t <= sa_t_sp, the supply temperature
\* sa_t = leaving_clg_t + reheat_valve / 15 lies between leaving_clg_t and the
\* setpoint; when the valve saturates (the demand (sa_t_sp - leaving_clg_t) *
\* 15 exceeds 100 and the command is held at 100), sa_t is strictly below the
\* setpoint.
C7_NoOvershootPastSetpoint ==
    (ReheatDone /\ leaving_clg_t <= sa_t_sp)
        => /\ leaving_clg_t <= sa_t
           /\ sa_t <= sa_t_sp
           /\ ((sa_t_sp - leaving_clg_t) * 15 > PCT_MAX
                 => (reheat_valve = PCT_MAX /\ sa_t < sa_t_sp))

C7_Witness ==
    /\ pc = "out"
    /\ (sa_t_sp - leaving_clg_t) * 15 > PCT_MAX
    /\ reheat_valve = PCT_MAX
    /\ leaving_clg_t < sa_t /\ sa_t < sa_t_sp

\* C8 (Spec): after n ticks of the session (now = n), within a run and
\* across reruns, the history holds exactly min(n, 30) rows; they are the
\* rows of the last min(n, 30) ticks in tick order, the last one the snapshot
\* (time, oa_t, sa_t, clg_valve) of the tick just computed; a tick leaves the
\* rows it keeps as they were and in their order, evicting the oldest row
\* first, and nothing but a tick changes the history; a run has at most 120
\* ticks.
C8_RollingWindow ==
    /\ [](LET n == Len(History)
          IN  /\ n = Min(now, 30)
              /\ i <= 120
              /\ \A k \in 1 .. n : History[k].Time = now - n + k
              /\ Ticked => History[n] = NewRow(now, oa_t, sa_t, clg_valve))
    /\ [][ IF now' = now + 1
             THEN \A k \in 1 .. Len(History') - 1 :
                     History'[k] = History[k + (IF Len(History) = 30 THEN 1 ELSE 0)]
             ELSE History' = History ]_vars

\* a full window in a rerun, rows of the first run already evicted
C8_Witness ==
    /\ runs >= 2
    /\ Ticked
    /\ now > 30 + 120
    /\ Len(History) = 30
    /\ History[1].Time = now - 29

\* the rows of the history appended in the current run
RowsOfThisRun == { k \in 1 .. Len(History) : History[k].Time > now - i }

\* C9 (Spec): what a tick computes depends on that tick's oa_t and on the
\* setpoint only: a tick that follows a tick with the same oa_t and setpoint
\* computes the same leaving_erv_t, clg_valve, leaving_clg_t, reheat_valve
\* and sa_t, and every row the history keeps of the current run (same
\* setpoint) with the same oa_t shows the same sa_t and clg_valve as the
\* tick just computed, whatever the history held when either was computed.
C9_TickIndependence ==
    /\ [](Ticked =>
            \A k \in RowsOfThisRun :
                History[k].OA_Temp = oa_t
                    => /\ History[k].SA_Temp = sa_t
                       /\ History[k].Cooling_Command = clg_valve)
    /\ [][ ( /\ Ticked /\ Ticked' /\ now' = now + 1
             /\ oa_t' = oa_t /\ sa_t_sp' = sa_t_sp )
           => /\ leaving_erv_t' = leaving_erv_t
              /\ clg_valve' = clg_valve
              /\ leaving_clg_t' = leaving_clg_t
              /\ reheat_valve' = reheat_valve
              /\ sa_t' = sa_t ]_vars

\* in a rerun, a tick with the same oa_t as an earlier tick of the run while
\* the history still holds rows of the run before, with another setpoint
C9_Witness ==
    /\ runs >= 2
    /\ Ticked
    /\ \E k \in RowsOfThisRun : k < Len(History) /\ History[k].OA_Temp = oa_t
    /\ \E k \in 1 .. Len(History) :
           /\ k \notin RowsOfThisRun
           /\ History[k].OA_Temp = oa_t
           /\ History[k].SA_Temp # sa_t

====
